---- MODULE Spec2Model ----
(***************************************************************************)
(* The user-settings store (database.py), its table (models.py), the       *)
(* language catalog (translator.py) and the per-interaction preferences    *)
(* facade (user_preferences.py) of the translator bot.                     *)
(*                                                                         *)
(* Python strings are sequences of one-character strings, so str.upper()   *)
(* is computed character by character.  Cyrillic display labels are        *)
(* written transliterated (the module text is ASCII).                      *)
(***************************************************************************)
EXTENDS Integers, Sequences, FiniteSets, TLC

(***************************************************************************)
(* Python values: str.upper, dict.get, truthiness, float()                 *)
(***************************************************************************)
LowerLetters ==
    <<"a","b","c","d","e","f","g","h","i","j","k","l","m",
      "n","o","p","q","r","s","t","u","v","w","x","y","z">>

UpperLetters ==
    <<"A","B","C","D","E","F","G","H","I","J","K","L","M",
      "N","O","P","Q","R","S","T","U","V","W","X","Y","Z">>

upper_char(c) ==
    IF \E i \in DOMAIN LowerLetters : LowerLetters[i] = c
    THEN UpperLetters[CHOOSE i \in DOMAIN LowerLetters : LowerLetters[i] = c]
    ELSE c

lower_char(c) ==
    IF \E i \in DOMAIN UpperLetters : UpperLetters[i] = c
    THEN LowerLetters[CHOOSE i \in DOMAIN UpperLetters : UpperLetters[i] = c]
    ELSE c

\* str.upper()
upper(s) == [i \in 1..Len(s) |-> upper_char(s[i])]

\* str.lower(), used by float() for "nan" / "inf"
lower(s) == [i \in 1..Len(s) |-> lower_char(s[i])]

\* dict.get(key): the value, or None (found = FALSE)
DictGet(d, k) ==
    IF k \in DOMAIN d THEN [found |-> TRUE, val |-> d[k]]
    ELSE [found |-> FALSE, val |-> <<>>]

\* truthiness of a str-or-None: None and '' are falsy
Truthy(r) == r.found /\ r.val # <<>>

\* A Python float: a finite value in hundredths, nan, or +/-inf (h = sign).
Num(h) == [kind |-> "num", h |-> h]
NaN == [kind |-> "nan", h |-> 0]
Inf(sign) == [kind |-> "inf", h |-> sign]

\* The argument handed to float(): a str or an already-parsed float.
PyStr(s) == [ty |-> "str", s |-> s, f |-> Num(0)]
PyFloat(f) == [ty |-> "float", s |-> <<>>, f |-> f]

Digits == <<"0","1","2","3","4","5","6","7","8","9">>

IsDigit(c) == \E i \in DOMAIN Digits : Digits[i] = c

DigitVal(c) == (CHOOSE i \in DOMAIN Digits : Digits[i] = c) - 1

RECURSIVE NatOf(_)
NatOf(s) ==
    IF s = <<>> THEN 0
    ELSE NatOf(SubSeq(s, 1, Len(s) - 1)) * 10 + DigitVal(s[Len(s)])

\* float(str) on [sign] digits [. digits] with at most two fraction digits
\* (the inputs drawn below), "nan" and "inf"; anything else is a ValueError.
ParseFloat(s) ==
    LET signed == Len(s) > 0 /\ s[1] \in {"-", "+"}
        sign == IF Len(s) > 0 /\ s[1] = "-" THEN -1 ELSE 1
        body == IF signed THEN Tail(s) ELSE s
        dots == {i \in 1..Len(body) : body[i] = "."}
        dot == IF dots = {} THEN Len(body) + 1 ELSE CHOOSE i \in dots : TRUE
        ip == SubSeq(body, 1, dot - 1)
        fp == SubSeq(body, dot + 1, Len(body))
        wellformed ==
            /\ Cardinality(dots) <= 1
            /\ Len(ip) + Len(fp) > 0
            /\ Len(fp) <= 2
            /\ \A i \in 1..Len(ip) : IsDigit(ip[i])
            /\ \A i \in 1..Len(fp) : IsDigit(fp[i])
        frac == CASE Len(fp) = 0 -> 0
                  [] Len(fp) = 1 -> NatOf(fp) * 10
                  [] OTHER -> NatOf(fp)
    IN  CASE lower(body) = <<"n","a","n">> -> [ok |-> TRUE, val |-> NaN]
          [] lower(body) = <<"i","n","f">> -> [ok |-> TRUE, val |-> Inf(sign)]
          [] wellformed -> [ok |-> TRUE, val |-> Num(sign * (NatOf(ip) * 100 + frac))]
          [] OTHER -> [ok |-> FALSE, val |-> Num(0)]

\* float(x): the identity on a float, a parse on a str
float(x) == IF x.ty = "float" THEN [ok |-> TRUE, val |-> x.f] ELSE ParseFloat(x.s)

(***************************************************************************)
(* Catalog                                                                 *)
(***************************************************************************)
\* translator.get_available_languages()
get_available_languages ==
    (<<"e","n">> :> <<"E","n","g","l","i","s","h">>)
    @@ (<<"e","s">> :> <<"S","p","a","n","i","s","h">>)
    @@ (<<"f","r">> :> <<"F","r","e","n","c","h">>)
    @@ (<<"d","e">> :> <<"G","e","r","m","a","n">>)
    @@ (<<"i","t">> :> <<"I","t","a","l","i","a","n">>)
    @@ (<<"p","t">> :> <<"P","o","r","t","u","g","u","e","s","e">>)
    @@ (<<"r","u">> :> <<"R","u","s","s","i","a","n">>)
    @@ (<<"z","h","-","C","N">> :>
          <<"C","h","i","n","e","s","e"," ","(","S","i","m","p","l","i","f","i","e","d",")">>)
    @@ (<<"j","a">> :> <<"J","a","p","a","n","e","s","e">>)
    @@ (<<"k","o">> :> <<"K","o","r","e","a","n">>)
    @@ (<<"a","r">> :> <<"A","r","a","b","i","c">>)
    @@ (<<"h","i">> :> <<"H","i","n","d","i">>)
    @@ (<<"t","r">> :> <<"T","u","r","k","i","s","h">>)
    @@ (<<"n","l">> :> <<"D","u","t","c","h">>)
    @@ (<<"s","v">> :> <<"S","w","e","d","i","s","h">>)
    @@ (<<"f","i">> :> <<"F","i","n","n","i","s","h">>)
    @@ (<<"p","l">> :> <<"P","o","l","i","s","h">>)
    @@ (<<"u","k">> :> <<"U","k","r","a","i","n","i","a","n">>)

\* The literal "Автоопределение" of database.py and user_preferences.py.
AutoLabel == <<"A","v","t","o","o","p","r","e","d","e","l","e","n","i","e">>

auto == <<"a","u","t","o">>

\* constants.py is not among the sources: the defaults and the two tables it
\* defines follow the specification's data model (section 3, section 8) and
\* the column defaults of models.py.
DEFAULT_SOURCE_LANGUAGE == auto
DEFAULT_LANGUAGE == <<"r","u">>
DEFAULT_AUDIO_LANGUAGE == <<"r","u">>
DEFAULT_VOICE_TYPE == <<"n","o","r","m","a","l">>
DEFAULT_SPEED == Num(100)

AVAILABLE_AUDIO_LANGUAGES ==
    (<<"r","u">> :> <<"R","u","s","s","k","i","j">>)
    @@ (<<"e","n">> :> <<"A","n","g","l","i","j","s","k","i","j">>)

VOICE_TYPES ==
    (<<"n","o","r","m","a","l">> :> <<"O","b","y","c","h","n","y","j">>)
    @@ (<<"s","l","o","w">> :> <<"M","e","d","l","e","n","n","y","j">>)
    @@ (<<"c","l","e","a","r">> :> <<"C","h","e","t","k","i","j">>)
    @@ (<<"e","m","o","t","i","o","n","a","l">> :>
          <<"E","m","o","c","i","o","n","a","l","n","y","j">>)

(***************************************************************************)
(* Bounds and input domains                                                *)
(***************************************************************************)
\* Calls (store functions and facade methods) started in one behaviour.
MaxCalls == 2

\* Concurrent bot interactions; each may call the store functions itself,
\* and those of WithFacade may own a UserPreferences object.
Procs == {"p1", "p2"}

WithFacade == {"p2"}

\* Telegram user ids the handlers pass (integers). The concurrent
\* interactions are those of one user; rows of other users come from
\* InitialTables.
UserIds == {42}

\* Codes handed to the update functions: catalog codes, a code absent from
\* every table and its upper-case spelling, and the sentinel.
CodeInputs ==
    [language |-> {<<"f","r">>, <<"z","z">>, <<"Z","Z">>},
     source_language |-> {<<"f","r">>, auto},
     audio_language |-> {<<"e","n">>},
     voice_type |-> {<<"s","l","o","w">>, <<"z","z">>}]

\* Speeds handed to update_speed: "2.0", "fast", "-1.5", "nan".
SpeedInputs ==
    {<<"2",".","0">>, <<"f","a","s","t">>, <<"-","1",".","5">>, <<"n","a","n">>}

CodeFields == {"language", "source_language", "audio_language", "voice_type"}

(***************************************************************************)
(* models.UserSettings and the user_settings table                         *)
(***************************************************************************)
\* A UserSettings object with the given attributes.
UserSettings(id, user_id, source_language, language, audio_language, voice_type, speed, source_language_name, language_name, audio_language_name, voice_type_name) ==
    [id |-> id, user_id |-> user_id,
     source_language |-> source_language, language |-> language,
     audio_language |-> audio_language, voice_type |-> voice_type, speed |-> speed,
     source_language_name |-> source_language_name, language_name |-> language_name,
     audio_language_name |-> audio_language_name, voice_type_name |-> voice_type_name]

\* Python's None where a UserSettings is expected (query(...).first() on no row).
NoSettings == UserSettings(0, "", <<>>, <<>>, <<>>, <<>>, Num(0), <<>>, <<>>, <<>>, <<>>)

\* The mapped columns other than the primary key.
Columns ==
    {"user_id", "source_language", "language", "audio_language", "voice_type", "speed",
     "source_language_name", "language_name", "audio_language_name", "voice_type_name"}

VARIABLES
    table,      \* the committed rows of user_settings
    pc,         \* per interaction: where its current store call stands
    call,       \* per interaction: the call in progress
    session,    \* per interaction: the ORM session's loaded and pending object
    prefs,      \* per interaction: its UserPreferences object, if constructed
    calls,      \* number of calls started
    last,       \* the call that ended at the step just taken, and how it ended
    defaulted,  \* per user id: what the call that created its row returned
    stt         \* the call of speech_to_text: its position, files and result

vars == <<table, pc, call, session, prefs, calls, last, defaulted, stt>>

\* The variables of the settings store and the facades.
storeVars == <<table, pc, call, session, prefs, calls, last, defaulted>>

\* str(user_id)
str(user_id) == ToString(user_id)

\* session.query(UserSettings).filter_by(user_id=...).first()
query_first(user_id) ==
    LET found == {r \in table : r.user_id = str(user_id)}
    IN  IF found = {} THEN NoSettings
        ELSE CHOOSE r \in found : \A q \in found : r.id <= q.id

\* A user_id column without the unique constraint.
UniqueViolation_unconstrained(row) == FALSE

\* Column(String, unique=True): an INSERT of a second row with the same
\* user_id is rejected by the database (IntegrityError).
UniqueViolation(row) == \E r \in table : r.user_id = row.user_id

\* Column(Integer, primary_key=True, autoincrement=True)
NextId == IF table = {} THEN 1
          ELSE 1 + (CHOOSE n \in {r.id : r \in table} : \A r \in table : r.id <= n)

\* session.add(settings); session.commit(): the INSERT
Insert(row) == table \cup {[row EXCEPT !.id = NextId]}

\* A commit that writes every column of the changed object, changed or not.
Flush_all_columns(loaded, pending) ==
    {IF r.id = loaded.id THEN pending ELSE r : r \in table}

\* A commit that deletes the loaded row and inserts the changed object.
Flush_replacing(loaded, pending) ==
    {r \in table : r.id # loaded.id} \cup {[pending EXCEPT !.id = NextId]}

\* session.commit() of a loaded object whose attributes were assigned: the
\* unit of work emits UPDATE ... WHERE id = :id for exactly the columns whose
\* assigned value differs from the loaded one (none: no statement).
Flush(loaded, pending) ==
    LET Col(r, c) == IF pending[c] # loaded[c] THEN pending[c] ELSE r[c]
    IN  {IF r.id = loaded.id
         THEN UserSettings(r.id, Col(r, "user_id"),
                           Col(r, "source_language"), Col(r, "language"),
                           Col(r, "audio_language"), Col(r, "voice_type"),
                           Col(r, "speed"),
                           Col(r, "source_language_name"), Col(r, "language_name"),
                           Col(r, "audio_language_name"), Col(r, "voice_type_name"))
         ELSE r : r \in table}

(***************************************************************************)
(* database.py: the object each function builds before it commits          *)
(***************************************************************************)
\* get_or_create_user_settings, the branch "if not settings": the new object
new_user_settings(user_id) ==
    LET lang == DictGet(get_available_languages, DEFAULT_LANGUAGE)
        language_name == IF Truthy(lang) THEN lang.val ELSE upper(DEFAULT_LANGUAGE)
        src == DictGet(get_available_languages, DEFAULT_SOURCE_LANGUAGE)
        source_language_name ==
            IF DEFAULT_SOURCE_LANGUAGE = auto THEN AutoLabel
            ELSE IF Truthy(src) THEN src.val ELSE upper(DEFAULT_SOURCE_LANGUAGE)
        audio == DictGet(AVAILABLE_AUDIO_LANGUAGES, DEFAULT_AUDIO_LANGUAGE)
        audio_language_name ==
            IF Truthy(audio) THEN audio.val ELSE upper(DEFAULT_AUDIO_LANGUAGE)
        voice == DictGet(VOICE_TYPES, DEFAULT_VOICE_TYPE)
        voice_type_name == IF Truthy(voice) THEN voice.val ELSE upper(DEFAULT_VOICE_TYPE)
    IN  UserSettings(0, str(user_id), DEFAULT_SOURCE_LANGUAGE, DEFAULT_LANGUAGE,
                     DEFAULT_AUDIO_LANGUAGE, DEFAULT_VOICE_TYPE, DEFAULT_SPEED,
                     source_language_name, language_name, audio_language_name,
                     voice_type_name)

\* get_or_create_user_settings: the detached copy handed to the caller
copy_settings(settings) ==
    UserSettings(settings.id, settings.user_id, settings.source_language,
                 settings.language, settings.audio_language, settings.voice_type,
                 settings.speed, settings.source_language_name, settings.language_name,
                 settings.audio_language_name, settings.voice_type_name)

\* update_user_language without the upper-casing of codes the table lacks.
update_user_language_verbatim(settings, language_code) ==
    LET language_name == DictGet(get_available_languages, language_code)
    IN  [settings EXCEPT
           !.language = language_code,
           !.language_name = IF Truthy(language_name) THEN language_name.val
                             ELSE language_code]

\* update_user_language: the assignments to the loaded object
update_user_language(settings, language_code) ==
    LET language_name == DictGet(get_available_languages, language_code)
    IN  [settings EXCEPT
           !.language = language_code,
           !.language_name = IF Truthy(language_name) THEN language_name.val
                             ELSE upper(language_code)]

\* update_user_audio_language: the assignments to the loaded object
update_user_audio_language(settings, language_code) ==
    LET audio_language_name == DictGet(AVAILABLE_AUDIO_LANGUAGES, language_code)
    IN  [settings EXCEPT
           !.audio_language = language_code,
           !.audio_language_name = IF Truthy(audio_language_name)
                                   THEN audio_language_name.val
                                   ELSE upper(language_code)]

\* update_user_voice_type: the assignments to the loaded object
update_user_voice_type(settings, voice_type) ==
    LET voice_type_name == DictGet(VOICE_TYPES, voice_type)
    IN  [settings EXCEPT
           !.voice_type = voice_type,
           !.voice_type_name = IF Truthy(voice_type_name) THEN voice_type_name.val
                               ELSE upper(voice_type)]

\* update_user_source_language: the assignments to the loaded object
update_user_source_language(settings, language_code) ==
    LET found == DictGet(get_available_languages, language_code)
        source_language_name ==
            IF language_code = auto THEN AutoLabel
            ELSE IF Truthy(found) THEN found.val ELSE upper(language_code)
    IN  [settings EXCEPT
           !.source_language = language_code,
           !.source_language_name = source_language_name]

\* update_user_speed: the assignment to the loaded object (speed_float parsed)
update_user_speed(settings, speed_float) == [settings EXCEPT !.speed = speed_float]

\* The update function of each code field.
AssignCode(field, settings, code) ==
    CASE field = "language" -> update_user_language(settings, code)
      [] field = "audio_language" -> update_user_audio_language(settings, code)
      [] field = "voice_type" -> update_user_voice_type(settings, code)
      [] field = "source_language" -> update_user_source_language(settings, code)

(***************************************************************************)
(* user_preferences.UserPreferences                                        *)
(***************************************************************************)
UserPreferences(user_id, source_language, language, audio_language, speed, voice_type, source_language_name, language_name, audio_language_name, voice_type_name) ==
    [constructed |-> TRUE, user_id |-> user_id,
     source_language |-> source_language, language |-> language,
     audio_language |-> audio_language, speed |-> speed, voice_type |-> voice_type,
     source_language_name |-> source_language_name, language_name |-> language_name,
     audio_language_name |-> audio_language_name, voice_type_name |-> voice_type_name]

\* No facade object yet.
NoPrefs ==
    [UserPreferences(0, <<>>, <<>>, <<>>, Num(0), <<>>, <<>>, <<>>, <<>>, <<>>)
       EXCEPT !.constructed = FALSE]

\* A constructor that takes the codes from the settings and leaves the names
\* at those of the defaults.
init_from_settings_default_names(user_id, settings) ==
    UserPreferences(user_id, settings.source_language, settings.language,
                    settings.audio_language, settings.speed, settings.voice_type,
                    AutoLabel, get_available_languages[DEFAULT_LANGUAGE],
                    AVAILABLE_AUDIO_LANGUAGES[DEFAULT_AUDIO_LANGUAGE],
                    VOICE_TYPES[DEFAULT_VOICE_TYPE])

\* __init__, the try branch: every attribute from the returned settings
\* (settings.speed is a float, so float() returns it).
init_from_settings(user_id, settings) ==
    LET speed == float(PyFloat(settings.speed))
    IN  UserPreferences(user_id, settings.source_language, settings.language,
                        settings.audio_language,
                        IF speed.ok THEN speed.val ELSE DEFAULT_SPEED,
                        settings.voice_type, settings.source_language_name,
                        settings.language_name, settings.audio_language_name,
                        settings.voice_type_name)

\* __init__, the except branch: the defaults and their names
init_from_defaults(user_id) ==
    LET source_lang_name == DictGet(get_available_languages, DEFAULT_SOURCE_LANGUAGE)
        lang_name == DictGet(get_available_languages, DEFAULT_LANGUAGE)
        audio_lang_name == DictGet(AVAILABLE_AUDIO_LANGUAGES, DEFAULT_AUDIO_LANGUAGE)
        voice_type_name == DictGet(VOICE_TYPES, DEFAULT_VOICE_TYPE)
    IN  UserPreferences(user_id, DEFAULT_SOURCE_LANGUAGE, DEFAULT_LANGUAGE,
                        DEFAULT_AUDIO_LANGUAGE, DEFAULT_SPEED, DEFAULT_VOICE_TYPE,
                        IF DEFAULT_SOURCE_LANGUAGE = auto THEN AutoLabel
                        ELSE IF Truthy(source_lang_name) THEN source_lang_name.val
                        ELSE upper(DEFAULT_SOURCE_LANGUAGE),
                        IF Truthy(lang_name) THEN lang_name.val
                        ELSE upper(DEFAULT_LANGUAGE),
                        IF Truthy(audio_lang_name) THEN audio_lang_name.val
                        ELSE upper(DEFAULT_AUDIO_LANGUAGE),
                        IF Truthy(voice_type_name) THEN voice_type_name.val
                        ELSE upper(DEFAULT_VOICE_TYPE))

\* A constructor whose except clause does not catch what the store raised.
UserPreferences_init_uncaught(user_id, raised, settings) ==
    IF raised THEN NoPrefs
    ELSE init_from_settings(user_id, settings)

\* UserPreferences.__init__ once get_or_create_user_settings returned or raised
UserPreferences_init(user_id, raised, settings) ==
    IF raised THEN init_from_defaults(user_id)
    ELSE init_from_settings(user_id, settings)

\* update_language, after db_update_language returned
mirror_language(self, language_code) ==
    LET language_name == DictGet(get_available_languages, language_code)
    IN  [self EXCEPT
           !.language = language_code,
           !.language_name = IF Truthy(language_name) THEN language_name.val
                             ELSE upper(language_code)]

\* update_audio_language, after db_update_audio_language returned
mirror_audio_language(self, language_code) ==
    LET audio_language_name == DictGet(AVAILABLE_AUDIO_LANGUAGES, language_code)
    IN  [self EXCEPT
           !.audio_language = language_code,
           !.audio_language_name = IF Truthy(audio_language_name)
                                   THEN audio_language_name.val
                                   ELSE upper(language_code)]

\* update_source_language, after db_update_source_language returned
mirror_source_language(self, language_code) ==
    LET language_name == DictGet(get_available_languages, language_code)
    IN  [self EXCEPT
           !.source_language = language_code,
           !.source_language_name =
               IF language_code = auto THEN AutoLabel
               ELSE IF Truthy(language_name) THEN language_name.val
               ELSE upper(language_code)]

\* update_voice_type, after db_update_voice_type returned:
\* VOICE_TYPES.get(voice_type, "Unknown")
mirror_voice_type(self, voice_type) ==
    LET voice_type_name == DictGet(VOICE_TYPES, voice_type)
    IN  [self EXCEPT
           !.voice_type = voice_type,
           !.voice_type_name = IF voice_type_name.found THEN voice_type_name.val
                               ELSE <<"U","n","k","n","o","w","n">>]

\* update_speed, after db_update_speed returned
mirror_speed(self, speed_float) == [self EXCEPT !.speed = speed_float]

(***************************************************************************)
(* Calls                                                                   *)
(***************************************************************************)
\* A call of a store function, made directly (via = "store") or by the
\* facade method of the same interaction (via = "facade").
Call(op, via, user_id, field, code, speed) ==
    [op |-> op, via |-> via, user_id |-> user_id, field |-> field,
     code |-> code, speed |-> speed]

NoCall == Call("none", "store", 0, "", <<>>, PyFloat(Num(0)))

NoSession == [loaded |-> NoSettings, pending |-> NoSettings]

\* How a call ended: status "ok" (it returned) or the exception it raised;
\* found: its query found a row; created: it logged "Created new settings";
\* settings: what get_or_create_user_settings returned.
Ended(p, c, status, found, created, settings) ==
    [p |-> p, call |-> c, status |-> status, found |-> found, created |-> created,
     settings |-> settings]

NoneEnded == Ended("", NoCall, "none", FALSE, FALSE, NoSettings)

\* The store functions as a handler may call them.
StoreCalls ==
    {Call("get_or_create", "store", u, "", <<>>, PyFloat(Num(0))) : u \in UserIds}
    \cup UNION {{Call("update", "store", u, f, c, PyFloat(Num(0))) :
                   u \in UserIds, c \in CodeInputs[f]} : f \in CodeFields}
    \cup {Call("update", "store", u, "speed", <<>>, PyStr(s)) :
            u \in UserIds, s \in SpeedInputs}

\* The store calls the facade of interaction p makes: the constructor calls
\* get_or_create_user_settings(user_id); update_X calls db_update_X with
\* self.user_id (update_speed with the float it parsed).
FacadeCalls(p) ==
    IF p \notin WithFacade THEN {}
    ELSE IF ~prefs[p].constructed
    THEN {Call("get_or_create", "facade", u, "", <<>>, PyFloat(Num(0))) : u \in UserIds}
    ELSE UNION {{Call("update", "facade", prefs[p].user_id, f, c, PyFloat(Num(0))) :
                   c \in CodeInputs[f]} : f \in CodeFields}
         \cup {Call("update", "facade", prefs[p].user_id, "speed", <<>>,
                    PyFloat(float(PyStr(s)).val)) :
                 s \in {t \in SpeedInputs : float(PyStr(t)).ok}}

\* What the caller of an update method of the facade gets: the methods have
\* no return statement and catch every exception, so the call evaluates to
\* None and raises nothing, whatever the store call did.
update_outcome(status) == [returned |-> "None", raised |-> "nothing"]

\* Update methods that assign the attribute whether or not the store call
\* raised.
FacadeReturn_mirroring_always(self, c, status, settings) ==
    CASE c.op = "get_or_create" -> UserPreferences_init(c.user_id, status # "ok", settings)
      [] c.op = "update" /\ c.field = "language" -> mirror_language(self, c.code)
      [] c.op = "update" /\ c.field = "audio_language" ->
            mirror_audio_language(self, c.code)
      [] c.op = "update" /\ c.field = "source_language" ->
            mirror_source_language(self, c.code)
      [] c.op = "update" /\ c.field = "voice_type" -> mirror_voice_type(self, c.code)
      [] c.op = "update" /\ c.field = "speed" -> mirror_speed(self, c.speed.f)

\* What the facade does when the store call it made returns or raises.
FacadeReturn(self, c, status, settings) ==
    CASE c.op = "get_or_create" -> UserPreferences_init(c.user_id, status # "ok", settings)
      [] c.op = "update" /\ status # "ok" -> self
      [] c.op = "update" /\ c.field = "language" -> mirror_language(self, c.code)
      [] c.op = "update" /\ c.field = "audio_language" ->
            mirror_audio_language(self, c.code)
      [] c.op = "update" /\ c.field = "source_language" ->
            mirror_source_language(self, c.code)
      [] c.op = "update" /\ c.field = "voice_type" -> mirror_voice_type(self, c.code)
      [] c.op = "update" /\ c.field = "speed" -> mirror_speed(self, c.speed.f)

\* A call starts: interaction p is between calls.
Starts(p) ==
    /\ pc[p] = "idle"
    /\ calls < MaxCalls
    /\ calls' = calls + 1

\* The store function of call c returns (status "ok") or raises, and its
\* session is closed; the facade method that made the call goes on.
Finish(p, c, status, found, created, settings) ==
    /\ pc' = [pc EXCEPT ![p] = "idle"]
    /\ call' = [call EXCEPT ![p] = NoCall]
    /\ session' = [session EXCEPT ![p] = NoSession]
    /\ last' = Ended(p, c, status, found, created, settings)
    /\ UNCHANGED stt
    /\ prefs' = [prefs EXCEPT ![p] =
                   IF c.via = "facade" THEN FacadeReturn(@, c, status, settings) ELSE @]
    /\ defaulted' =
         CASE created /\ status = "ok" -> [defaulted EXCEPT ![c.user_id] = settings]
           [] c.op = "update" /\ found /\ status = "ok" ->
                 [defaulted EXCEPT ![c.user_id] = NoSettings]
           [] OTHER -> defaulted

\* The store function of call c goes on to its next statement.
Continue(p, c, at, loaded, pending) ==
    /\ pc' = [pc EXCEPT ![p] = at]
    /\ call' = [call EXCEPT ![p] = c]
    /\ session' = [session EXCEPT ![p] = [loaded |-> loaded, pending |-> pending]]
    /\ last' = NoneEnded
    /\ UNCHANGED <<prefs, defaulted, stt>>

(***************************************************************************)
(* speech_to_text.py: the state of one call of speech_to_text              *)
(***************************************************************************)
\* pc: the stage about to run; exists: os.path.exists(audio_path);
\* vosk_model_available, openai_key: the model directory and the
\* OPENAI_API_KEY of the environment; audio_is_wav: audio_path ends in
\* ".wav"; temp_wav_file: what convert_to_wav returned ("None" or the
\* temporary path); file_to_use; temps: the temporary files on disk;
\* attempted: the providers tried, in order; failures: how each failed
\* attempt failed; ret: the returned str; by: the provider whose text it is.
Transcription(pc_, exists, vosk, key, is_wav, temp_wav_file, file_to_use, temps, attempted, failures, ret, by) ==
    [pc |-> pc_, exists |-> exists, vosk_model_available |-> vosk, openai_key |-> key,
     audio_is_wav |-> is_wav, temp_wav_file |-> temp_wav_file,
     file_to_use |-> file_to_use, temps |-> temps, attempted |-> attempted,
     failures |-> failures, ret |-> ret, by |-> by]

\* speech_to_text has not been called.
NoTranscription ==
    Transcription("idle", FALSE, FALSE, FALSE, FALSE, "None", "None", {}, <<>>, {},
                  "", "none")

\* The str of line 202 (transliterated).
AllFailedMessage ==
    "Ne udalos raspoznat rech. Pozhalujsta, govorite chetche ili poprobujte otpravit tekstovoe soobshchenie."

\* The str of line 206 (transliterated), with str(e) of the exception.
ErrorMessage(e) == "Oshibka pri raspoznavanii rechi: " \o e

\* What a recognizer returns for the recorded audio.
RecognizedText == "privet"

(***************************************************************************)
(* Actions                                                                 *)
(***************************************************************************)
\* The database outlives the process (DATABASE_URL, by default the file
\* bot.db): a run starts from the table earlier runs left, here no row, the
\* row of user 42 as created and then given the language "zz", or the row of
\* another user (7) as created.
InitialTables ==
    {{},
     {update_user_language([new_user_settings(42) EXCEPT !.id = 1], <<"z","z">>)},
     {[new_user_settings(7) EXCEPT !.id = 1]}}

Init ==
    /\ table \in InitialTables
    /\ pc = [p \in Procs |-> "idle"]
    /\ call = [p \in Procs |-> NoCall]
    /\ session = [p \in Procs |-> NoSession]
    /\ prefs = [p \in Procs |-> NoPrefs]
    /\ calls = 0
    /\ last = NoneEnded
    /\ defaulted = [u \in UserIds |-> NoSettings]
    /\ stt = NoTranscription

\* get_or_create_user_settings up to the end of its query: the row is found
\* and its copy returned, or the new object is built and awaits the INSERT.
get_or_create_query(p, c) ==
    /\ Starts(p)
    /\ table' = table
    /\ LET settings == query_first(c.user_id)
       IN  IF settings # NoSettings
           THEN Finish(p, c, "ok", TRUE, FALSE, copy_settings(settings))
           ELSE Continue(p, c, "insert", NoSettings, new_user_settings(c.user_id))

\* session.add(settings); session.commit(): the INSERT, rejected by the
\* unique constraint when the user_id has a row by now (IntegrityError, a
\* SQLAlchemyError: rollback, raise).
get_or_create_insert(p) ==
    /\ pc[p] = "insert"
    /\ calls' = calls
    /\ IF UniqueViolation(session[p].pending)
       THEN /\ table' = table
            /\ Finish(p, call[p], "IntegrityError", FALSE, FALSE, NoSettings)
       ELSE /\ table' = Insert(session[p].pending)
            /\ Continue(p, call[p], "refresh",
                        [session[p].pending EXCEPT !.id = NextId], NoSettings)

\* get_or_create_user_settings copying the object it built instead of the
\* row the commit stored.
get_or_create_refresh_unrefreshed(p) ==
    /\ pc[p] = "refresh"
    /\ UNCHANGED <<calls, table>>
    /\ Finish(p, call[p], "ok", FALSE, TRUE,
              copy_settings(new_user_settings(call[p].user_id)))

\* The commit expired the object (expire_on_commit): reading settings.id
\* reloads the row by primary key; the copy of what was read is returned.
get_or_create_refresh(p) ==
    /\ pc[p] = "refresh"
    /\ UNCHANGED <<calls, table>>
    /\ LET settings == CHOOSE r \in table : r.id = session[p].loaded.id
       IN  Finish(p, call[p], "ok", FALSE, TRUE, copy_settings(settings))

\* update_user_speed converting the speed before it looks for the row.
update_query_converting_first(p, c) ==
    /\ Starts(p)
    /\ table' = table
    /\ LET settings == query_first(c.user_id)
           speed_float == float(c.speed)
       IN  CASE c.field = "speed" /\ ~speed_float.ok ->
                   Finish(p, c, "ValueError", settings # NoSettings, FALSE, NoSettings)
             [] c.field = "speed" /\ speed_float.ok /\ settings # NoSettings ->
                   Continue(p, c, "commit", settings,
                            update_user_speed(settings, speed_float.val))
             [] c.field # "speed" /\ settings # NoSettings ->
                   Continue(p, c, "commit", settings,
                            AssignCode(c.field, settings, c.code))
             [] OTHER -> Finish(p, c, "ok", FALSE, FALSE, NoSettings)

\* update_user_speed storing zero for a speed that float() rejects.
update_query_unvalidated(p, c) ==
    /\ Starts(p)
    /\ table' = table
    /\ LET settings == query_first(c.user_id)
           speed_float == float(c.speed)
       IN  CASE settings = NoSettings -> Finish(p, c, "ok", FALSE, FALSE, NoSettings)
             [] settings # NoSettings /\ c.field = "speed" ->
                   Continue(p, c, "commit", settings,
                            update_user_speed(settings,
                                IF speed_float.ok THEN speed_float.val ELSE Num(0)))
             [] OTHER ->
                   Continue(p, c, "commit", settings,
                            AssignCode(c.field, settings, c.code))

\* update_user_* up to the end of its assignments: no row is a silent
\* return; update_user_speed raises ValueError from float(speed) before it
\* assigns; otherwise the changed object awaits the commit.
update_query(p, c) ==
    /\ Starts(p)
    /\ table' = table
    /\ LET settings == query_first(c.user_id)
           speed_float == float(c.speed)
       IN  CASE settings = NoSettings -> Finish(p, c, "ok", FALSE, FALSE, NoSettings)
             [] settings # NoSettings /\ c.field = "speed" /\ ~speed_float.ok ->
                   Finish(p, c, "ValueError", TRUE, FALSE, NoSettings)
             [] settings # NoSettings /\ c.field = "speed" /\ speed_float.ok ->
                   Continue(p, c, "commit", settings,
                            update_user_speed(settings, speed_float.val))
             [] OTHER ->
                   Continue(p, c, "commit", settings,
                            AssignCode(c.field, settings, c.code))

\* session.commit() of update_user_*: the UPDATE of the changed columns.
update_commit(p) ==
    /\ pc[p] = "commit"
    /\ calls' = calls
    /\ table' = Flush(session[p].loaded, session[p].pending)
    /\ Finish(p, call[p], "ok", TRUE, FALSE, NoSettings)

\* A handler calls get_or_create_user_settings(user_id).
GetOrCreateUserSettings(p) ==
    /\ \E c \in StoreCalls : c.op = "get_or_create" /\ get_or_create_query(p, c)

\* A handler calls one of the five update_user_* functions.
UpdateUser(p) ==
    /\ \E c \in StoreCalls : c.op = "update" /\ update_query(p, c)

\* A handler constructs UserPreferences(user_id).
NewUserPreferences(p) ==
    /\ p \in WithFacade
    /\ \E c \in FacadeCalls(p) : c.op = "get_or_create" /\ get_or_create_query(p, c)

\* A handler calls one of the five update methods of its UserPreferences.
PreferencesUpdate(p) ==
    /\ p \in WithFacade
    /\ \E c \in FacadeCalls(p) : c.op = "update" /\ update_query(p, c)

\* UserPreferences.update_speed with a speed float() rejects: the ValueError
\* is caught and logged before the store is called.
PreferencesUpdateSpeedRejected(p) ==
    \E s \in SpeedInputs :
        /\ p \in WithFacade
        /\ prefs[p].constructed
        /\ ~float(PyStr(s)).ok
        /\ Starts(p)
        /\ last' = Ended(p, Call("update", "facade", prefs[p].user_id, "speed", <<>>,
                                 PyStr(s)),
                         "not called", FALSE, FALSE, NoSettings)
        /\ UNCHANGED <<table, pc, call, session, prefs, defaulted, stt>>

\* The database fails on the first statement of a call (the SELECT):
\* rollback, the error (OperationalError, a SQLAlchemyError) is raised.
QueryFails(p) ==
    \E c \in StoreCalls \cup FacadeCalls(p) :
        /\ Starts(p)
        /\ table' = table
        /\ Finish(p, c, "OperationalError", FALSE, FALSE, NoSettings)

\* The database fails on the INSERT or UPDATE of a commit: rollback, raise.
CommitFails(p) ==
    /\ pc[p] \in {"insert", "commit"}
    /\ UNCHANGED <<calls, table>>
    /\ Finish(p, call[p], "OperationalError", pc[p] = "commit", FALSE, NoSettings)

\* The database fails on the reload after the INSERT was committed.
RefreshFails(p) ==
    /\ pc[p] = "refresh"
    /\ UNCHANGED <<calls, table>>
    /\ Finish(p, call[p], "OperationalError", FALSE, TRUE, NoSettings)

Next ==
    \E p \in Procs :
        \/ GetOrCreateUserSettings(p)
        \/ get_or_create_insert(p)
        \/ get_or_create_refresh(p)
        \/ UpdateUser(p)
        \/ update_commit(p)
        \/ NewUserPreferences(p)
        \/ PreferencesUpdate(p)
        \/ PreferencesUpdateSpeedRejected(p)
        \/ QueryFails(p)
        \/ CommitFails(p)
        \/ RefreshFails(p)

Spec == Init /\ [][Next]_vars

(***************************************************************************)
(* The write paths of database.py applied to single inputs                 *)
(***************************************************************************)
\* Codes for the name derivation: every key of the three tables, the
\* sentinel, spellings of it and of a catalog code in other cases, codes in
\* no table, and the empty string.
NameCodes ==
    DOMAIN get_available_languages \cup DOMAIN AVAILABLE_AUDIO_LANGUAGES
    \cup DOMAIN VOICE_TYPES
    \cup {auto, <<"A","U","T","O">>, <<"A","u","t","o">>, <<"z","z">>, <<"Z","Z">>,
          <<"Z","z">>, <<>>, <<"F","R">>, <<"x","-","1">>}

NamesInit == Init /\ table = {}

\* One update function assigns one code to a newly created object.
ApplyWritePath ==
    \E f \in CodeFields, code \in NameCodes, p \in Procs :
        /\ p \notin WithFacade
        /\ call' = [call EXCEPT ![p] = Call("update", "store", 42, f, code,
                                             PyFloat(Num(0)))]
        /\ session' = [session EXCEPT ![p] =
                         [loaded |-> new_user_settings(42),
                          pending |-> AssignCode(f, new_user_settings(42), code)]]
        /\ UNCHANGED <<table, pc, prefs, calls, last, defaulted, stt>>

NamesNext == ApplyWritePath

NamesSpec == NamesInit /\ [][NamesNext]_vars

(***************************************************************************)
(* speech_to_text.py: speech_to_text and convert_to_wav                    *)
(***************************************************************************)
\* audio_path, and the temporary files of convert_to_wav and the Vosk stage.
AudioPath(is_wav) == IF is_wav THEN "voice.wav" ELSE "voice.ogg"

TempWav == "tmp_convert.wav"

VoskWav == "tmp_vosk.wav"

\* file.endswith('.wav')
endswith_wav(file) == file \in {"voice.wav", TempWav, VoskWav}

\* The finally clause (lines 207-216): remove temp_wav_file if there is one.
Finally(s) ==
    [s EXCEPT !.pc = "done",
              !.temps = IF s.temp_wav_file # "None" THEN @ \ {s.temp_wav_file} ELSE @]

\* A provider returned text: return text (through the finally clause).
Recognized(s, provider) ==
    Finally([s EXCEPT !.attempted = Append(@, provider),
                      !.ret = RecognizedText, !.by = provider])

\* A provider failed and its exceptions were caught at its stage: go on.
GoOn(s, provider, kinds, next) ==
    [s EXCEPT !.attempted = Append(@, provider),
              !.failures = @ \cup {<<provider, k>> : k \in kinds},
              !.pc = next]

\* An exception left its stage: except Exception (lines 204-206).
Raised(s, provider, kinds, e) ==
    Finally([s EXCEPT !.attempted = Append(@, provider),
                      !.failures = @ \cup {<<provider, k>> : k \in kinds},
                      !.ret = ErrorMessage(e)])

\* Lines 24-29: the file is missing (return "" before the try), or the
\* environment is read and the conversion is next.
speech_to_text_start ==
    /\ stt.pc = "idle"
    /\ \E exists \in BOOLEAN, vosk \in BOOLEAN, key \in BOOLEAN, is_wav \in BOOLEAN :
         stt' = IF ~exists
                THEN [NoTranscription EXCEPT !.pc = "done", !.ret = ""]
                ELSE Transcription("convert", TRUE, vosk, key, is_wav, "None",
                                   AudioPath(is_wav), {}, <<>>, {}, "", "none")
    /\ UNCHANGED storeVars

\* convert_to_wav (lines 218-264) and lines 33-34: pydub converts; pydub
\* fails and ffmpeg is called (its exit status is not looked at); ffmpeg
\* cannot be started (the temporary file is removed, None); pydub cannot be
\* imported (None, no temporary file).
convert_to_wav ==
    /\ stt.pc = "convert"
    /\ \E how \in {"pydub", "ffmpeg", "ffmpeg raises", "pydub missing"} :
         LET temp_wav_file == IF how \in {"pydub", "ffmpeg"} THEN TempWav ELSE "None"
         IN  stt' = [stt EXCEPT
                       !.temp_wav_file = temp_wav_file,
                       !.file_to_use = IF temp_wav_file # "None" THEN temp_wav_file
                                       ELSE AudioPath(stt.audio_is_wav),
                       !.temps = IF temp_wav_file # "None" THEN @ \cup {temp_wav_file}
                                 ELSE @,
                       !.pc = IF stt.vosk_model_available THEN "vosk" ELSE "load"]
    /\ UNCHANGED storeVars

\* Lines 37-100, the Vosk stage: vosk cannot be imported; a file that is
\* not .wav is first converted into a second temporary file, which is
\* removed only where the result is read (lines 88-92); text is returned, an
\* empty text, a wrong format and any exception lead on to the recognizer.
vosk_stage ==
    /\ stt.pc = "vosk"
    /\ \E o \in {"ImportError", "text", "empty", "bad format", "Exception"} :
         LET created == ~endswith_wav(stt.file_to_use) /\ o # "ImportError"
             removed == o \in {"text", "empty"}
             s == [stt EXCEPT !.temps = IF created /\ ~removed THEN @ \cup {VoskWav}
                                        ELSE @]
         IN  stt' = IF o = "text" THEN Recognized(s, "vosk")
                    ELSE GoOn(s, "vosk", {o}, "load")
    /\ UNCHANGED storeVars

\* Lines 103-114: the recognizer reads the file; an exception here is caught
\* at line 204.
load_audio ==
    /\ stt.pc = "load"
    /\ \E o \in {"ok", "Exception"} :
         stt' = IF o = "ok" THEN [stt EXCEPT !.pc = "google"]
                ELSE Finally([stt EXCEPT !.failures = @ \cup {<<"load", o>>},
                                         !.ret = ErrorMessage(o)])
    /\ UNCHANGED storeVars

\* Lines 122-139, Google: 'ru'; on UnknownValueError 'en-US', inside the
\* except clause, where only UnknownValueError is caught; RequestError of
\* the 'ru' attempt is caught at line 138.
google_stage ==
    /\ stt.pc = "google"
    /\ \E ru \in {"text", "UnknownValueError", "RequestError", "Exception"},
          en \in {"text", "UnknownValueError", "RequestError", "Exception"} :
         stt' = CASE ru = "text" -> Recognized(stt, "google")
                  [] ru = "RequestError" -> GoOn(stt, "google", {ru}, "cloud")
                  [] ru = "Exception" -> Raised(stt, "google", {ru}, ru)
                  [] ru = "UnknownValueError" /\ en = "text" -> Recognized(stt, "google")
                  [] ru = "UnknownValueError" /\ en = "UnknownValueError" ->
                        GoOn(stt, "google", {ru}, "cloud")
                  [] OTHER -> Raised(stt, "google", {ru, en}, en)
    /\ UNCHANGED storeVars

\* Lines 142-159, Google Cloud: 'ru-RU' then 'en-US'; UnknownValueError
\* goes to the next language, RequestError leaves the loop, LookupError and
\* AttributeError are passed over at line 158.
cloud_stage ==
    /\ stt.pc = "cloud"
    /\ \E o1 \in {"text", "UnknownValueError", "RequestError", "LookupError", "Exception"},
          o2 \in {"text", "UnknownValueError", "RequestError", "LookupError", "Exception"} :
         stt' = CASE o1 = "text" -> Recognized(stt, "cloud")
                  [] o1 \in {"RequestError", "LookupError"} ->
                        GoOn(stt, "cloud", {o1}, "sphinx")
                  [] o1 = "Exception" -> Raised(stt, "cloud", {o1}, o1)
                  [] o1 = "UnknownValueError" /\ o2 = "text" -> Recognized(stt, "cloud")
                  [] o1 = "UnknownValueError" /\ o2 = "Exception" ->
                        Raised(stt, "cloud", {o1, o2}, o2)
                  [] OTHER -> GoOn(stt, "cloud", {o1, o2}, "sphinx")
    /\ UNCHANGED storeVars

\* Lines 162-181, Sphinx: UnknownValueError and LookupError are caught;
\* RequestError (PocketSphinx missing) and anything else is not.
sphinx_stage ==
    /\ stt.pc = "sphinx"
    /\ \E o \in {"text", "UnknownValueError", "LookupError", "RequestError", "Exception"} :
         stt' = CASE o = "text" -> Recognized(stt, "sphinx")
                  [] o \in {"UnknownValueError", "LookupError"} ->
                        GoOn(stt, "sphinx", {o}, "openai")
                  [] OTHER -> Raised(stt, "sphinx", {o}, o)
    /\ UNCHANGED storeVars

\* Lines 184-202: with OPENAI_API_KEY the transcript is returned or the
\* exception is caught at line 204; without it the message of line 202 is
\* returned.
openai_stage ==
    /\ stt.pc = "openai"
    /\ \E o \in {"text", "Exception"} :
         stt' = IF ~stt.openai_key THEN Finally([stt EXCEPT !.ret = AllFailedMessage])
                ELSE IF o = "text" THEN Recognized(stt, "openai")
                ELSE Raised(stt, "openai", {o}, o)
    /\ UNCHANGED storeVars

SttInit == Init /\ table = {}

SttNext ==
    \/ speech_to_text_start
    \/ convert_to_wav
    \/ vosk_stage
    \/ load_audio
    \/ google_stage
    \/ cloud_stage
    \/ sphinx_stage
    \/ openai_stage

SttSpec == SttInit /\ [][SttNext]_vars

(***************************************************************************)
(* Properties                                                              *)
(***************************************************************************)
\* The rows of a user id.
RowsOf(user_id) == {r \in table : r.user_id = str(user_id)}

\* The display-name column paired with a code column, and its table.
NameField(field) ==
    CASE field = "language" -> "language_name"
      [] field = "source_language" -> "source_language_name"
      [] field = "audio_language" -> "audio_language_name"
      [] field = "voice_type" -> "voice_type_name"

TableOf(field) ==
    CASE field = "language" -> get_available_languages
      [] field = "source_language" -> get_available_languages
      [] field = "audio_language" -> AVAILABLE_AUDIO_LANGUAGES
      [] field = "voice_type" -> VOICE_TYPES

\* resolveName of the catalog contract: the fixed label for the sentinel of
\* the source language, else the table's value, else the upper-cased code.
resolveName(code, tbl, isSource) ==
    IF isSource /\ code = auto THEN AutoLabel
    ELSE IF code \in DOMAIN tbl THEN tbl[code]
    ELSE upper(code)

\* The four names of an object are the names derived from its four codes.
NamesDerived(r) ==
    \A f \in CodeFields :
        r[NameField(f)] = resolveName(r[f], TableOf(f), f = "source_language")

\* A float that is a positive finite number.
Positive(f) == f.kind = "num" /\ f.h > 0

\* C1: in every reachable state the table holds at most one row per
\* user_id, whatever calls interleave, two racing creations included.
C1_OneRowPerUser ==
    \A r1 \in table, r2 \in table : r1.user_id = r2.user_id => r1 = r2

\* C1 witness: a creation lost the race (its INSERT was rejected) and the
\* user has exactly one row.
C1_Witness ==
    /\ last.status = "IntegrityError"
    /\ Cardinality(RowsOf(last.call.user_id)) = 1

\* C2: a get_or_create_user_settings call that the database itself does not
\* fail returns the settings of its user, also when its INSERT hits the
\* uniqueness conflict: no such call ends in an error.
C2_ConflictRetriesAsRead ==
    (last.call.op = "get_or_create" /\ last.status # "OperationalError")
        => (last.status = "ok" /\ last.settings.user_id = str(last.call.user_id))

\* C3: when get_or_create_user_settings returns for a user whose row an
\* earlier call created, with no update of that row committed since, it
\* returns what the creating call returned, field by field, and the user has
\* exactly one row.
C3_IdempotentDefaulting ==
    \A u \in UserIds :
        (/\ last.call.op = "get_or_create"
         /\ last.call.user_id = u
         /\ last.status = "ok"
         /\ ~last.created
         /\ defaulted[u] # NoSettings)
            => (last.settings = defaulted[u] /\ Cardinality(RowsOf(u)) = 1)

\* C3 witness: the second of two such calls has just returned.
C3_Witness ==
    \E u \in UserIds :
        /\ last.call.op = "get_or_create"
        /\ last.call.user_id = u
        /\ last.status = "ok"
        /\ ~last.created
        /\ defaulted[u] # NoSettings
        /\ defaulted[u].language_name = <<"R","u","s","s","i","a","n">>

\* C4: when an update of a field to v has just returned for a user whose
\* row it found, what get_or_create_user_settings returns next for that user
\* (the copy of the row) has the field equal to v (the float of v for the
\* speed) and the paired name equal to the catalog-resolved name of v.
C4_WriteThenRead ==
    (last.call.op = "update" /\ last.status = "ok" /\ last.found)
        => LET c == last.call
               s == copy_settings(query_first(c.user_id))
           IN  IF c.field = "speed" THEN s.speed = float(c.speed).val
               ELSE /\ s[c.field] = c.code
                    /\ s[NameField(c.field)] =
                         resolveName(c.code, TableOf(c.field),
                                     c.field = "source_language")

\* C5: in every committed state each row's four names are the names derived
\* from its four codes.
C5_NamesDerivedFromCodes == \A r \in table : NamesDerived(r)

\* C6: the name each write path of the store computes is resolveName of the
\* code it was given: the object an update function is about to commit holds
\* the code and resolveName of the code, and a newly created object holds
\* the names resolveName gives for the defaults.
C6_WritePathsResolveNames ==
    \A p \in Procs :
        /\ (call[p].op = "update" /\ call[p].field \in CodeFields)
              => /\ session[p].pending[call[p].field] = call[p].code
                 /\ session[p].pending[NameField(call[p].field)] =
                       resolveName(call[p].code, TableOf(call[p].field),
                                   call[p].field = "source_language")
        /\ (call[p].op = "update" /\ session[p].loaded.id = 0)
              => NamesDerived(session[p].loaded)

\* C6 witness: update_user_voice_type was given a code that is in no table
\* and named it by its upper-cased form.
C6_Witness ==
    \E p \in Procs :
        /\ call[p].op = "update"
        /\ call[p].field = "voice_type"
        /\ call[p].code = <<"Z","z">>
        /\ session[p].pending.voice_type_name = <<"Z","Z">>

\* C7: an update of a user id that has no row leaves the table as it was
\* and raises nothing of its own, whatever the value.
C7_NoOpOnMissingUser ==
    [][(/\ last'.call.op = "update"
        /\ last'.status # "not called"
        /\ query_first(last'.call.user_id) = NoSettings)
          => (table' = table /\ last'.status \in {"ok", "OperationalError"})]_vars

\* C7 witness: update_user_speed returned for a user with no row and a
\* speed that float() rejects.
C7_Witness ==
    /\ last.call.op = "update"
    /\ last.call.field = "speed"
    /\ ~float(last.call.speed).ok
    /\ last.status = "ok"
    /\ ~last.found
    /\ RowsOf(last.call.user_id) = {}

\* C8: a speed that float() rejects, given for a user with a row, makes
\* update_user_speed raise ValueError with the table as it was; given to the
\* facade's update_speed it leaves the table and the facade as they were.
C8_SpeedValidation ==
    [][(/\ last'.call.op = "update"
        /\ last'.call.field = "speed"
        /\ ~float(last'.call.speed).ok
        /\ last'.status # "OperationalError")
          => /\ table' = table
             /\ last'.call.via = "store" /\ query_first(last'.call.user_id) # NoSettings
                  => last'.status = "ValueError"
             /\ last'.call.via = "facade" => prefs' = prefs]_vars

\* C8 witness: update_user_speed has just raised ValueError for a user
\* whose row holds its speed.
C8_Witness ==
    /\ last.status = "ValueError"
    /\ last.found
    /\ \E r \in RowsOf(last.call.user_id) : Positive(r.speed)

\* C9: the speed of every row and of every facade is a positive number.
C9_SpeedPositive ==
    /\ \A r \in table : Positive(r.speed)
    /\ \A p \in Procs : prefs[p].constructed => Positive(prefs[p].speed)

\* C10: when the constructor of UserPreferences has just ended after its
\* store call raised, the object exists (nothing escaped), its five fields
\* are the defaults and its four names are the resolved names of the defaults.
C10_FacadeFailOpen ==
    (last.call.op = "get_or_create" /\ last.call.via = "facade" /\ last.status # "ok")
        => LET self == prefs[last.p]
           IN  /\ self.constructed
               /\ self.user_id = last.call.user_id
               /\ self.source_language = DEFAULT_SOURCE_LANGUAGE
               /\ self.language = DEFAULT_LANGUAGE
               /\ self.audio_language = DEFAULT_AUDIO_LANGUAGE
               /\ self.voice_type = DEFAULT_VOICE_TYPE
               /\ self.speed = DEFAULT_SPEED
               /\ NamesDerived(self)

\* C10 witness: a constructor whose store call failed in the database.
C10_Witness ==
    /\ last.call.op = "get_or_create"
    /\ last.call.via = "facade"
    /\ last.status = "OperationalError"
    /\ prefs[last.p].constructed

\* The nine attributes of a facade equal the columns of a row.
Agree(self, r) ==
    /\ \A f \in CodeFields : self[f] = r[f] /\ self[NameField(f)] = r[NameField(f)]
    /\ self.speed = r.speed

\* C11: when the store call of a facade update method fails, the facade is
\* exactly as it was before the call, and the method returns to its caller
\* (the interaction is idle again, its facade intact).
C11_FacadeUpdateFailureAtomic ==
    [][(/\ last'.call.op = "update"
        /\ last'.call.via = "facade"
        /\ last'.status \notin {"none", "ok"})
          => (prefs' = prefs /\ pc'[last'.p] = "idle" /\ prefs'[last'.p].constructed)]_vars

\* C11 witness: the commit of a facade update failed in the database after
\* the row was found and changed in the session.
C11_Witness ==
    /\ last.call.op = "update"
    /\ last.call.via = "facade"
    /\ last.call.field \in CodeFields
    /\ last.status = "OperationalError"
    /\ last.found
    /\ prefs[last.p][last.call.field] # last.call.code

\* C12: a facade that agrees with its user's row, and whose update method is
\* the only writer of that row (the row is still what the method loaded when
\* it commits), agrees with the row after the update, in every field and
\* every name, whatever the value.
C12_FacadeEqualsStore ==
    [][\A p \in WithFacade :
         (/\ pc[p] = "commit"
          /\ call[p].via = "facade"
          /\ last'.p = p
          /\ last'.status = "ok"
          /\ query_first(call[p].user_id) # NoSettings
          /\ session[p].loaded = query_first(call[p].user_id)
          /\ Agree(prefs[p], query_first(call[p].user_id)))
            => \E r \in table' : /\ r.user_id = str(call[p].user_id)
                                 /\ Agree(prefs'[p], r)]_vars

\* C13: a facade update method changes the facade only when, as the method
\* returns, the user's row holds the value it was given.
C13_NoMirrorWithoutStoreWrite ==
    [][\A p \in WithFacade :
         (prefs[p].constructed /\ prefs'[p] # prefs[p])
            => \E r \in table' :
                 /\ r.user_id = str(prefs'[p].user_id)
                 /\ IF last'.call.field = "speed" THEN r.speed = prefs'[p].speed
                    ELSE r[last'.call.field] = prefs'[p][last'.call.field]]_vars

\* C14: when a store function ends in a persistence-layer error, the step
\* changes no row and the failing call has committed nothing before it: the
\* table is what it was when the call began.
C14_FailureLeavesStoreUnchanged ==
    [][\A p \in Procs :
         (last'.p = p /\ last'.status \in {"OperationalError", "IntegrityError"})
            => /\ table' = table
               /\ ~(pc[p] = "refresh" /\ \E r \in table : r.id = session[p].loaded.id)]_vars

\* C15: get_or_create_user_settings for a user with no row returns 'auto',
\* 'ru', 'ru', 'normal', 1.0, the auto-detect label and the Russian name of
\* Russian (transliterated here); once update_user_voice_type(.., 'slow') has
\* returned the row holds 'slow' and the label of the slow voice, and once
\* update_user_speed(.., '2.0') has returned the row holds the speed 2.0.
C15_ScenarioValues ==
    /\ (last.call.op = "get_or_create" /\ last.created /\ last.status = "ok")
         => /\ last.settings.source_language = <<"a","u","t","o">>
            /\ last.settings.language = <<"r","u">>
            /\ last.settings.audio_language = <<"r","u">>
            /\ last.settings.voice_type = <<"n","o","r","m","a","l">>
            /\ last.settings.speed = Num(100)
            /\ last.settings.source_language_name = AutoLabel
            /\ last.settings.language_name = <<"R","u","s","s","k","i","j">>
    /\ (/\ last.call.op = "update" /\ last.status = "ok" /\ last.found
        /\ last.call.field = "voice_type" /\ last.call.code = <<"s","l","o","w">>)
         => LET s == copy_settings(query_first(last.call.user_id))
            IN  s.voice_type = <<"s","l","o","w">>
                /\ s.voice_type_name = VOICE_TYPES[<<"s","l","o","w">>]
    /\ (/\ last.call.op = "update" /\ last.status = "ok" /\ last.found
        /\ last.call.field = "speed" /\ last.call.speed = PyStr(<<"2",".","0">>))
         => copy_settings(query_first(last.call.user_id)).speed = Num(200)

\* C16: what the caller of a facade update method gets when the store write
\* failed differs from what it gets when the store write succeeded.
C16_FailureDetectable ==
    (/\ last.call.op = "update"
     /\ last.call.via = "facade"
     /\ last.status \notin {"none", "ok"})
        => update_outcome(last.status) # update_outcome("ok")

\* C19: when the constructor of UserPreferences has just ended and its store
\* call returned, the user has a row and the facade's nine attributes are
\* the columns of that row.
C19_HydratedFromRow ==
    (last.call.op = "get_or_create" /\ last.call.via = "facade" /\ last.status = "ok")
        => /\ prefs[last.p].constructed
           /\ prefs[last.p].user_id = last.call.user_id
           /\ \E r \in table : /\ r.user_id = str(last.call.user_id)
                               /\ Agree(prefs[last.p], r)

\* C19 witness: a facade constructed from a row whose language is not the
\* default.
C19_Witness ==
    /\ last.call.op = "get_or_create"
    /\ last.call.via = "facade"
    /\ last.status = "ok"
    /\ prefs[last.p].language # DEFAULT_LANGUAGE
    /\ prefs[last.p].language_name # get_available_languages[DEFAULT_LANGUAGE]

\* C20: every row of a state is, in the next state, a row with the same id
\* and the same user_id.
C20_RowsPersist ==
    [][\A r \in table : \E r2 \in table' : r2.id = r.id /\ r2.user_id = r.user_id]_vars

\* C20 witness: an update has just changed the row that the table started
\* with, which keeps its id.
C20_Witness ==
    /\ last.call.op = "update"
    /\ last.status = "ok"
    /\ last.found
    /\ \E r \in table : /\ r.id = 1
                        /\ r.user_id = str(last.call.user_id)
                        /\ r.language = <<"f","r">>

\* The providers speech_to_text has at its disposal.
AvailableProviders ==
    (IF stt.vosk_model_available THEN {"vosk"} ELSE {})
    \cup {"google", "cloud", "sphinx"}
    \cup (IF stt.openai_key THEN {"openai"} ELSE {})

\* C17: when speech_to_text has returned and what it returned is no
\* provider's text (the file is missing, every provider failed, or an
\* exception was caught), it returned the empty string.
C17_EmptyStringOnFailure ==
    (stt.pc = "done" /\ stt.by = "none") => stt.ret = ""

\* C18: when speech_to_text has returned without a provider's text, and
\* every failed attempt of a recognizer failed by UnknownValueError or
\* RequestError (Vosk in any way), every available provider was attempted;
\* and a returned text is the text of the last provider attempted.
C18_FallbackChain ==
    /\ (/\ stt.pc = "done"
        /\ stt.exists
        /\ stt.by = "none"
        /\ \A f \in stt.failures :
              f[1] = "vosk" \/ f[2] \in {"UnknownValueError", "RequestError"})
         => AvailableProviders \subseteq {stt.attempted[i] : i \in DOMAIN stt.attempted}
    /\ (stt.pc = "done" /\ stt.by # "none")
         => (stt.attempted # <<>> /\ stt.attempted[Len(stt.attempted)] = stt.by)

\* C21: the voice_type of every row and of every facade is one of the four
\* keys of VOICE_TYPES: normal, slow, clear, emotional.
C21_VoiceTypeVocabulary ==
    /\ \A r \in table : r.voice_type \in DOMAIN VOICE_TYPES
    /\ \A p \in Procs : prefs[p].constructed => prefs[p].voice_type \in DOMAIN VOICE_TYPES

\* The columns an update call assigns: its field and the paired name.
OwnColumns(c) == IF c.field = "speed" THEN {"speed"} ELSE {c.field, NameField(c.field)}

\* C22: the commit of a store update leaves every row in place; rows of
\* other users are as they were; on the row of its user every column other
\* than its field and the paired name is as it was just before the commit
\* (so what an update of another field committed since this one read the
\* row stays), and, no update of the same field having come between its
\* read and its commit, its field and name are the assigned ones.
C22_UpdateFrame ==
    [][\A p \in Procs :
          (pc[p] = "commit" /\ last'.p = p /\ last'.status = "ok")
             => /\ Cardinality(table') = Cardinality(table)
                /\ \A r \in table : \E r2 \in table' :
                      /\ r2.id = r.id
                      /\ r.user_id # str(call[p].user_id) => r2 = r
                      /\ \A col \in Columns \ OwnColumns(call[p]) : r2[col] = r[col]
                      /\ (/\ r.user_id = str(call[p].user_id)
                          /\ \A col \in OwnColumns(call[p]) :
                                r[col] = session[p].loaded[col])
                           => \A col \in OwnColumns(call[p]) :
                                 r2[col] = session[p].pending[col]]_vars

\* C22 witness: the second of two updates of different fields has just
\* committed on the row the table started with, and both values are there.
C22_Witness ==
    /\ last.call.op = "update"
    /\ last.call.field = "voice_type"
    /\ last.status = "ok"
    /\ \E r \in RowsOf(last.call.user_id) :
          /\ r.id = 1
          /\ r.language = <<"f","r">>
          /\ r.language_name = get_available_languages[<<"f","r">>]
          /\ r.voice_type = <<"s","l","o","w">>
          /\ r.voice_type_name = VOICE_TYPES[<<"s","l","o","w">>]

\* C23: when speech_to_text has returned, no temporary file it created
\* (that of convert_to_wav, that of the Vosk stage) is left on disk.
C23_TempFilesRemoved ==
    stt.pc = "done" => stt.temps = {}

====
